---- MODULE Spec2Model ----
(***************************************************************************)
(* A model of relogger: the flow-table builder (config_parser.py), the     *)
(* relay engine (relogger.py) and the syslog sender (syslog.py).           *)
(*                                                                         *)
(* Python strings are sequences of one-character strings, so that split,   *)
(* strip, replace, int() and '%d' are computed as the code computes them.  *)
(***************************************************************************)
EXTENDS Integers, Sequences, FiniteSets, TLC

\* --------------------------------------------------------------- bounds
\* Longest list of configuration sections (rules) given to RLConfig.
MaxRules == 2
\* Most reads of the RLConfig.flowtable property by a client.
MaxReads == 2
\* Most datagrams a bound UDP source receives.
MaxDatagrams == 1
\* The length of the generated host names given to valid_hostname.
MaxNameLen == 3
\* The number of packets a Syslog client sends.
MaxPackets == 2

\* ------------------------------------------------------ string helpers
\* An optional value (None or x) is a sequence of length 0 or 1.
None == << >>
Some(x) == << x >>
IsNone(o) == o = << >>

Digits == {"0", "1", "2", "3", "4", "5", "6", "7", "8", "9"}
DigitSeq == <<"0", "1", "2", "3", "4", "5", "6", "7", "8", "9">>
Letters ==
  {"a", "b", "c", "d", "e", "f", "g", "h", "i", "j", "k", "l", "m",
   "n", "o", "p", "q", "r", "s", "t", "u", "v", "w", "x", "y", "z",
   "A", "B", "C", "D", "E", "F", "G", "H", "I", "J", "K", "L", "M",
   "N", "O", "P", "Q", "R", "S", "T", "U", "V", "W", "X", "Y", "Z"}
\* str.isalnum() of one ASCII character.
IsAlnum(c) == c \in Letters \cup Digits
\* The characters str.strip() removes when called without argument.
Whitespace == {" ", "\t", "\n", "\r", "\f"}

\* s.startswith(p)
StartsWith(s, p) == Len(s) >= Len(p) /\ SubSeq(s, 1, Len(p)) = p

\* c in s, for a one-character c
HasChar(s, c) == \E i \in 1..Len(s) : s[i] = c

\* s[n:]
Drop(s, n) == SubSeq(s, n + 1, Len(s))

\* s[:n]
Take(s, n) == SubSeq(s, 1, IF n < Len(s) THEN n ELSE Len(s))

\* s.split(c) for a one-character separator c
RECURSIVE Split(_, _)
Split(s, c) ==
  IF ~HasChar(s, c) THEN << s >>
  ELSE LET i == CHOOSE j \in 1..Len(s) :
                  s[j] = c /\ \A k \in 1..(j - 1) : s[k] # c
       IN << SubSeq(s, 1, i - 1) >> \o Split(Drop(s, i), c)

\* s.lstrip(chars) and s.rstrip(chars), chars a set of characters
RECURSIVE LStrip(_, _)
LStrip(s, chars) ==
  IF s # << >> /\ s[1] \in chars THEN LStrip(Tail(s), chars) ELSE s
RECURSIVE RStrip(_, _)
RStrip(s, chars) ==
  IF s # << >> /\ s[Len(s)] \in chars
    THEN RStrip(SubSeq(s, 1, Len(s) - 1), chars) ELSE s
\* s.strip(chars)
Strip(s, chars) == RStrip(LStrip(s, chars), chars)

\* s.replace(old, new), old non-empty: every occurrence, left to right
RECURSIVE Replace(_, _, _)
Replace(s, old, new) ==
  IF s = << >> THEN << >>
  ELSE IF StartsWith(s, old) THEN new \o Replace(Drop(s, Len(old)), old, new)
  ELSE << s[1] >> \o Replace(Tail(s), old, new)

\* int(s) for a non-empty string of decimal digits
DigitVal(c) == (CHOOSE i \in 1..10 : DigitSeq[i] = c) - 1
IsDigits(s) == s # << >> /\ \A i \in 1..Len(s) : s[i] \in Digits
RECURSIVE IntOf(_)
IntOf(s) ==
  IF s = << >> THEN 0
  ELSE 10 * IntOf(SubSeq(s, 1, Len(s) - 1)) + DigitVal(s[Len(s)])

\* '%d' % n for n >= 0
RECURSIVE FormatD(_)
FormatD(n) ==
  IF n < 10 THEN << DigitSeq[n + 1] >>
  ELSE FormatD(n \div 10) \o << DigitSeq[(n % 10) + 1] >>

\* The concatenation of a sequence of strings.
RECURSIVE Concat(_)
Concat(ss) == IF ss = << >> THEN << >> ELSE Head(ss) \o Concat(Tail(ss))

\* The set of elements of a sequence.
Range(s) == { s[i] : i \in 1..Len(s) }

\* All orderings (sequences without repetition) of a finite set.
Perms(S) ==
  { p \in [1..Cardinality(S) -> S] : \A x \in S : \E i \in DOMAIN p : p[i] = x }

\* list(a_set): CPython walks the hash table, an order fixed by the hashes of
\* the elements for the lifetime of the process and unrelated to insertion
\* order.  `order` is that order: a sequence holding once every string that
\* ever shares a set with another one (a one-element set has one order).
Rank(x, order) == CHOOSE i \in 1..Len(order) : order[i] = x
RECURSIVE SetToList(_, _)
SetToList(S, order) ==
  IF S = {} THEN << >>
  ELSE IF Cardinality(S) = 1 THEN << CHOOSE y \in S : TRUE >>
  ELSE LET x == CHOOSE y \in S : \A z \in S : Rank(y, order) <= Rank(z, order)
       IN << x >> \o SetToList(S \ {x}, order)

\* ------------------------------------------------ config_parser.py
FilePrefix == <<"f", "i", "l", "e", ":", "/", "/">>
\* RLConfig.PORT
PORT == 514
\* os.path.abspath(os.path.dirname(self.config_file))
BaseDir == <<"/", "d">>

\* [0-9]|[1-9][0-9]|1[0-9]{2}|2[0-4][0-9]|25[0-5]
IsOctet(p) ==
  \/ Len(p) = 1 /\ p[1] \in Digits
  \/ Len(p) = 2 /\ p[1] \in Digits \ {"0"} /\ p[2] \in Digits
  \/ Len(p) = 3 /\ p[1] = "1" /\ p[2] \in Digits /\ p[3] \in Digits
  \/ Len(p) = 3 /\ p[1] = "2" /\ p[2] \in {"0", "1", "2", "3", "4"}
       /\ p[3] \in Digits
  \/ Len(p) = 3 /\ p[1] = "2" /\ p[2] = "5"
       /\ p[3] \in {"0", "1", "2", "3", "4", "5"}

\* [a-zA-Z0-9]|[a-zA-Z0-9][a-zA-Z0-9\-]*[a-zA-Z0-9]
IsLabel(p) ==
  /\ Len(p) >= 1
  /\ IsAlnum(p[1])
  /\ IsAlnum(p[Len(p)])
  /\ \A i \in 1..Len(p) : IsAlnum(p[i]) \/ p[i] = "-"

\* The language of validIP and of validHN between ^ and $.
InValidIP(s) ==
  LET parts == Split(s, ".")
  IN Len(parts) = 4 /\ \A i \in 1..4 : IsOctet(parts[i])
InValidHN(s) ==
  LET parts == Split(s, ".")
  IN \A i \in 1..Len(parts) : IsLabel(parts[i])

\* ipregex.match / hnregex.match: the pattern is anchored by ^ and $, and `$`
\* also matches just before a final newline.
MatchIP(s) ==
  \/ InValidIP(s)
  \/ s # << >> /\ s[Len(s)] = "\n" /\ InValidIP(SubSeq(s, 1, Len(s) - 1))
MatchHN(s) ==
  \/ InValidHN(s)
  \/ s # << >> /\ s[Len(s)] = "\n" /\ InValidHN(SubSeq(s, 1, Len(s) - 1))

valid_hostname(hostname) == MatchIP(hostname) \/ MatchHN(hostname)

HostEntry_bare(h) == h
\* One host token of _get_hosts_from_names: h if ':' in h else '%s:%d'.
HostEntry(h) == IF HasChar(h, ":") THEN h ELSE h \o <<":">> \o FormatD(PORT)

get_hosts_from_names_skip(names, order) ==
  LET parts == Split(names, ",")
      hosts == [i \in 1..Len(parts) |-> Strip(parts[i], Whitespace)]
  IN [err |-> "",
      result |-> SetToList({ HostEntry(hosts[i]) :
                             i \in { j \in 1..Len(hosts) :
                                     valid_hostname(Split(hosts[j], ":")[1]) } },
                           order)]

\* RLConfig._get_hosts_from_names: [err, result]; err is "" or the error.
get_hosts_from_names(names, order) ==
  LET parts == Split(names, ",")
      hosts == [i \in 1..Len(parts) |-> Strip(parts[i], Whitespace)]
      bad == { i \in 1..Len(hosts) : ~valid_hostname(Split(hosts[i], ":")[1]) }
  IN IF bad # {}
       THEN [err |-> "Invalid hostname", result |-> << >>]
       ELSE [err |-> "",
             result |-> SetToList({ HostEntry(hosts[i]) : i \in 1..Len(hosts) },
                                  order)]

\* RLConfig._get_abs_filepath: [err, result]
get_abs_filepath(ifile) ==
  LET f == IF StartsWith(ifile, FilePrefix) THEN Drop(ifile, 7) ELSE ifile
  IN IF f = << >>
       THEN [err |-> "IndexError", result |-> << >>]
       ELSE [err |-> "",
             result |-> FilePrefix \o
                        (IF f[1] # "/" THEN BaseDir \o <<"/">> \o f ELSE f)]

\* A section of the configuration file: each of the four options is None
\* (config.has_option is false) or Some(text).
\* `XXX if config.has_option(section, name) else None` for a host option and
\* for a file option: [err, result].
hosts_option(r) == [err |-> r.err, result |-> Some(r.result)]
file_option(r) == [err |-> r.err, result |-> Some(<< r.result >>)]
no_option == [err |-> "", result |-> None]

\* RLConfig._get_section_values, given the four options as they evaluate, in
\* the order the code evaluates them: [err, values], values the 4-tuple.
section_values(sh, sf, dh, df) ==
  IF sh.err # "" THEN [err |-> sh.err, values |-> << >>]
  ELSE IF sf.err # "" THEN [err |-> sf.err, values |-> << >>]
  ELSE IF IsNone(sh.result) /\ IsNone(sf.result)
    THEN [err |-> "no sources", values |-> << >>]
  ELSE IF dh.err # "" THEN [err |-> dh.err, values |-> << >>]
  ELSE IF df.err # "" THEN [err |-> df.err, values |-> << >>]
  ELSE IF IsNone(dh.result) /\ IsNone(df.result)
    THEN [err |-> "no destinations", values |-> << >>]
  ELSE [err |-> "",
        values |-> << sh.result, sf.result, dh.result, df.result >>]

\* RLConfig._get_section_values
get_section_values(section, order) ==
  section_values(
    IF IsNone(section.src_host) THEN no_option
    ELSE hosts_option(get_hosts_from_names(section.src_host[1], order)),
    IF IsNone(section.src_file) THEN no_option
    ELSE file_option(get_abs_filepath(section.src_file[1])),
    IF IsNone(section.dst_host) THEN no_option
    ELSE hosts_option(get_hosts_from_names(section.dst_host[1], order)),
    IF IsNone(section.dst_file) THEN no_option
    ELSE file_option(get_abs_filepath(section.dst_file[1])))

\* RLConfig._assemble_flowtable: a dict from each source to the rule's
\* destination list.
assemble_flowtable(values) ==
  LET v == [i \in 1..4 |-> IF IsNone(values[i]) THEN << >> ELSE values[i][1]]
      src == v[1] \o v[2]
      dst == v[3] \o v[4]
  IN [s \in Range(src) |-> dst]

\* RLConfig.flowtable (the property): the value returned, and self.flow_table
\* as the call leaves it.
flowtable_aliased(flow_table, order) ==
  LET keys == UNION { DOMAIN flow_table[i] : i \in 1..Len(flow_table) }
      idx(k) == { i \in 1..Len(flow_table) : k \in DOMAIN flow_table[i] }
      first(k) == CHOOSE i \in idx(k) : \A j \in idx(k) : i <= j
      rest(k) == SetToList(idx(k) \ {first(k)}, [i \in 1..Len(flow_table) |-> i])
      merged(k) == flow_table[first(k)][k]
                     \o Concat([n \in 1..Len(rest(k)) |-> flow_table[rest(k)[n]][k]])
  IN [value |-> [k \in keys |-> merged(k)],
      flow_table |->
        [i \in 1..Len(flow_table) |->
           [k \in DOMAIN flow_table[i] |->
              IF i = first(k) THEN merged(k) ELSE flow_table[i][k]]]]

flowtable_overwrite(flow_table, order) ==
  LET keys == UNION { DOMAIN flow_table[i] : i \in 1..Len(flow_table) }
      last(k) == CHOOSE i \in 1..Len(flow_table) :
                   /\ k \in DOMAIN flow_table[i]
                   /\ \A j \in (i + 1)..Len(flow_table) : k \notin DOMAIN flow_table[j]
  IN [value |-> [k \in keys |-> SetToList(Range(flow_table[last(k)][k]), order)],
      flow_table |-> flow_table]

flowtable_concat(flow_table, order) ==
  LET keys == UNION { DOMAIN flow_table[i] : i \in 1..Len(flow_table) }
  IN [value |-> [k \in keys |->
                   Concat([i \in 1..Len(flow_table) |->
                             IF k \in DOMAIN flow_table[i]
                               THEN flow_table[i][k] ELSE << >>])],
      flow_table |-> flow_table]

flowtable(flow_table, order) ==
  LET keys == UNION { DOMAIN flow_table[i] : i \in 1..Len(flow_table) }
      ftable(k) == UNION { Range(flow_table[i][k]) :
                           i \in { j \in 1..Len(flow_table) :
                                   k \in DOMAIN flow_table[j] } }
  IN [value |-> [k \in keys |-> SetToList(ftable(k), order)],
      flow_table |-> flow_table]

\* RLConfig._detect_loop: TRUE when it raises.
detect_loop(ftable) == \E source \in DOMAIN ftable : source \in Range(ftable[source])

\* RLConfig.__init__(config=...): the sections in file order, then the loop
\* check.  [err, flow_table]; err is "" when the object is constructed.
RECURSIVE parse_sections(_, _, _)
parse_section(fields, rest, order, acc) ==
  IF fields.err # "" THEN [err |-> fields.err, flow_table |-> << >>]
  ELSE parse_sections(rest, order, Append(acc, assemble_flowtable(fields.values)))
parse_sections(sections, order, acc) ==
  IF sections = << >> THEN [err |-> "", flow_table |-> acc]
  ELSE parse_section(get_section_values(Head(sections), order),
                     Tail(sections), order, acc)

init_result(parsed, loop) ==
  IF parsed.err # "" THEN parsed
  ELSE IF loop THEN [err |-> "Loops detected", flow_table |-> << >>]
  ELSE parsed

loop_in_first(parsed, order) ==
  /\ parsed.err = ""
  /\ parsed.flow_table # << >>
  /\ detect_loop(parsed.flow_table[1])

loop_in(parsed, order) ==
  parsed.err = "" /\ detect_loop(flowtable(parsed.flow_table, order).value)

checked(parsed, order) == init_result(parsed, loop_in(parsed, order))

RLConfig_init(sections, order) ==
  checked(parse_sections(sections, order, << >>), order)

\* -------------------------------------------------------- syslog.py
\* Packet.MAX_LEN and MSG.MAX_TAG_LEN
MAX_LEN == 1024
MAX_TAG_LEN == 32
\* time.localtime() rendered by HEADER._calculate_current_timestamp,
\* socket.gethostname() and sys.argv[0] of the running process.
CurrentTimestamp ==
  <<"N", "o", "v", " ", " ", "2", " ", "2", "0", ":", "3", "4", ":", "0", "0">>
LocalHostname == <<"h">>
Argv0 == <<"r">>

\* PRI.__str__
PRI_str(pri) == <<"<">> \o FormatD(pri.facility + pri.severity) \o <<">">>

\* HEADER._timestamp_is_valid: printable ASCII only.  The characters of the
\* model outside 32..126 are the control characters.
ControlChars == {"\t", "\n", "\r", "\f", "NUL"}
timestamp_is_valid(value) ==
  /\ ~IsNone(value)
  /\ \A i \in 1..Len(value[1]) : value[1][i] \notin ControlChars

\* HEADER(timestamp, hostname): the two property setters.
HEADER(timestamp, hostname) ==
  [timestamp |-> IF timestamp_is_valid(timestamp) THEN timestamp[1]
                 ELSE CurrentTimestamp,
   hostname |-> IF IsNone(hostname) THEN LocalHostname ELSE hostname[1]]

\* HEADER.__str__
HEADER_str(header) == header.timestamp \o <<" ">> \o header.hostname

prepend_seperator_never(value) == value
\* MSG._prepend_seperator
prepend_seperator(value) ==
  IF value # << >> /\ IsAlnum(value[1]) THEN <<":", " ">> \o value ELSE value

\* MSG(tag, content, pid): the tag and content setters; pid is None or
\* Some(digits).
MSG(tag, content, pid) ==
  [tag |-> Take(IF IsNone(tag) THEN Argv0 ELSE tag[1], MAX_TAG_LEN),
   content |-> prepend_seperator(content),
   pid |-> pid]

\* MSG.__str__
MSG_str(msg) ==
  msg.tag \o (IF IsNone(msg.pid) THEN msg.content
              ELSE <<"[">> \o msg.pid[1] \o <<"]">> \o msg.content)

Packet_str_uncut(packet) ==
  PRI_str(packet.pri) \o HEADER_str(packet.header) \o <<" ">> \o MSG_str(packet.msg)
\* Packet.__str__
Packet_str(packet) ==
  Take(PRI_str(packet.pri) \o HEADER_str(packet.header) \o <<" ">>
         \o MSG_str(packet.msg), MAX_LEN)

\* A Python value handed to send_packet: a str or a Packet object.
PyStr(value) == [type |-> "str", value |-> value]
Packet(pri, header, msg) ==
  [type |-> "Packet", pri |-> pri, header |-> header, msg |-> msg]
\* str(x)
Str(x) == IF x.type = "str" THEN x.value ELSE Packet_str(x)

\* Syslog(): the keys of self._hostnames.
Syslog == [hostnames |-> {}]
\* Syslog.add_host
add_host(logger, hostname) ==
  [logger EXCEPT !.hostnames = @ \cup {hostname}]

\* `logger.host_number > 0` in RLServer._message_consumer: host_number is a
\* method and is not called, and Python 2 orders every number before every
\* other object, so the comparison is true for every logger.
host_number_gt_0(logger) == TRUE

\* Syslog._send_packet_to_hosts / send_packet: the sendto calls it makes, in
\* the iteration order of the _hostnames dict.
send_packet(logger, packet, order) ==
  LET names == SetToList(logger.hostnames, order)
  IN [i \in 1..Len(names) |->
        LET parts == Split(names[i], ":")
        IN [hostname |-> names[i],
            data |-> Str(packet),
            addr |-> IF HasChar(names[i], ":")
                       THEN << parts[1], IntOf(parts[2]) >>
                       ELSE << names[i], PORT >>]]

\* ------------------------------------------------------ relogger.py
\* open(path, 'wb'): the file is created or truncated; the file object
\* starts at offset 0.
open_wb(fsys, path) == [fsys EXCEPT ![path] = Some(<< >>)]
FileObject(path) == [path |-> path, pos |-> 0]

\* f.write(bytes); f.flush() on a file object not opened for appending: the
\* bytes go to the object's own offset.
file_write(fsys, f, bytes) ==
  LET old == IF IsNone(fsys[f.path]) THEN << >> ELSE fsys[f.path][1]
      pad == [i \in 1..(f.pos - Len(old)) |-> "NUL"]
      new == Take(old, f.pos) \o pad \o bytes \o Drop(old, f.pos + Len(bytes))
  IN [fs |-> [fsys EXCEPT ![f.path] = Some(new)],
      f |-> [f EXCEPT !.pos = @ + Len(bytes)]]

\* The loop `for f in ofiles: f.write(data + '\n'); f.flush()`.
RECURSIVE write_all(_, _, _)
write_all(fsys, ofiles, bytes) ==
  IF ofiles = << >> THEN [fs |-> fsys, ofiles |-> << >>]
  ELSE LET w == file_write(fsys, Head(ofiles), bytes)
           r == write_all(w.fs, Tail(ofiles), bytes)
       IN [fs |-> r.fs, ofiles |-> << w.f >> \o r.ofiles]

\* The body of the flowtable setter for one key: (logger, ofiles) and the file
\* system after the opens.
RECURSIVE setter_entry(_, _)
setter_entry(v, fsys) ==
  IF v = << >> THEN [logger |-> Syslog, ofiles |-> << >>, fs |-> fsys]
  ELSE LET i == v[Len(v)]
           r == setter_entry(SubSeq(v, 1, Len(v) - 1), fsys)
       IN IF StartsWith(i, FilePrefix)
            THEN LET path == Replace(i, FilePrefix, << >>)
                 IN [logger |-> r.logger,
                     ofiles |-> Append(r.ofiles, FileObject(path)),
                     fs |-> open_wb(r.fs, path)]
            ELSE [logger |-> add_host(r.logger, i),
                  ofiles |-> r.ofiles,
                  fs |-> r.fs]

\* RLServer.flowtable (setter): self._flowtable and the file system.
RECURSIVE flowtable_setter(_, _, _)
flowtable_setter(value, keys, fsys) ==
  IF keys = {} THEN [flowtable |-> << >>, fs |-> fsys]
  ELSE LET k == CHOOSE x \in keys : TRUE
           e == setter_entry(value[k], fsys)
           r == flowtable_setter(value, keys \ {k}, e.fs)
       IN [flowtable |-> (k :> [logger |-> e.logger, ofiles |-> e.ofiles])
                           @@ r.flowtable,
           fs |-> r.fs]

\* Queue.put and Queue.get
queue_put(queue, item) == Append(queue, item)
queue_get_peek(queue) == [item |-> Head(queue), queue |-> queue]
queue_get_lifo(queue) ==
  [item |-> queue[Len(queue)], queue |-> SubSeq(queue, 1, Len(queue) - 1)]
queue_get(queue) == [item |-> Head(queue), queue |-> Tail(queue)]

\* '%s:%d' % (host, port)
host_port(host, port) == host \o <<":">> \o FormatD(port)

\* `line.strip(' \r\n')` in _serve_file
serve_file_data_rstrip(line) == RStrip(line, {"\r", "\n"})
serve_file_data(line) == Strip(line, {" ", "\r", "\n"})

\* `self.request[0].strip()` in UDPHandler.handle
handle_data(request) == Strip(request, Whitespace)

\* The next line a file iterator returns from offset pos (0-based) of content:
\* up to and including the next "\n", or the rest of the file.
next_line_rest(content, pos) == Drop(content, pos)
next_line(content, pos) ==
  LET rest == Drop(content, pos)
  IN IF HasChar(rest, "\n")
       THEN SubSeq(rest, 1, CHOOSE j \in 1..Len(rest) :
                              rest[j] = "\n" /\ \A k \in 1..(j - 1) : rest[k] # "\n")
       ELSE rest

\* ------------------------------------------------------------ inputs
\* Texts of the configuration options (the file under the directory BaseDir).
Tok_a514 == <<"a", ":", "5", "1", "4">>
Tok_a0514 == <<"a", ":", "0", "5", "1", "4">>
Tok_b == <<"b">>
Tok_b514_c6 == <<"b", ":", "5", "1", "4", ",", " ", "c", ":", "6">>
Tok_c6 == <<"c", ":", "6">>
Tok_bad == <<"-", "b">>
Tok_empty == << >>
Tok_i == <<"i">>
Tok_o == <<"o">>
Tok_abs_o == <<"/", "d", "/", "o">>

Section(sh, sf, dh, df) ==
  [src_host |-> sh, src_file |-> sf, dst_host |-> dh, dst_file |-> df]

\* The sections the relay engine is run with.
EngineSections ==
  { Section(Some(Tok_a514), None, Some(Tok_b), None),
    Section(Some(Tok_a514), None, Some(Tok_b514_c6), Some(Tok_o)),
    Section(None, Some(Tok_i), None, Some(Tok_abs_o)),
    Section(None, Some(Tok_i), Some(Tok_c6), None),
    Section(Some(Tok_a0514), None, Some(Tok_b), None) }

\* The sections RLConfig is constructed with: those, and rejected ones.
ConfigSections ==
  EngineSections \cup
  { Section(Some(Tok_a514), None, Some(Tok_a514), None),
    Section(None, Some(Tok_i), None, Some(Tok_i)),
    Section(Some(Tok_a514), Some(Tok_i), Some(Tok_b), None),
    Section(None, None, Some(Tok_b), None),
    Section(Some(Tok_a514), None, None, None),
    Section(Some(Tok_a514), None, Some(Tok_bad), None),
    Section(Some(Tok_a514), None, Some(Tok_empty), None),
    Section(None, Some(Tok_i), None, Some(Tok_empty)) }

\* The non-empty lists of at most MaxRules sections of S.
SectionLists(S) == UNION { [1..n -> S] : n \in 1..MaxRules }

\* The strings a list of sections puts in a destination set.
HashedStrings(sections) ==
  UNION { { HostEntry(Strip(h, Whitespace)) :
              h \in IF IsNone(sections[i].dst_host) THEN {}
                    ELSE Range(Split(sections[i].dst_host[1], ",")) }
          \cup (IF IsNone(sections[i].dst_file) THEN {}
                ELSE { get_abs_filepath(sections[i].dst_file[1]).result })
        : i \in 1..Len(sections) }

\* -------------------------------------------------------------- state
VARIABLES
  sections,       \* the sections of the configuration file, in file order
  order,          \* the process's set iteration order (see SetToList)
  phase,          \* "new", "conferr", "configured", "constructed", "started"
  conferr,        \* the message of the conferr RLConfig.__init__ raised, or ""
  flow_table,     \* RLConfig.flow_table: one dict per section
  reads,          \* history: the values the flowtable property returned
  fs,             \* the file system: path -> None or Some(content)
  _flowtable,     \* RLServer._flowtable: source key -> (logger, ofiles)
  message_queue,  \* RLServer.message_queue
  tasks,          \* the ingestion thread of each source key
  consumer,       \* the dispatch thread: "idle", "running", "failed"
  pushed,         \* history: every (source, data) put, in put order
  popped,         \* history: every (source, data) got, in get order
  dispatched,     \* history: the entries whose dispatch ran to task_done()
  sent,           \* history: the datagrams handed to sendto, in order
  failure         \* history: the sends that raised

configVars == << sections, order, phase, conferr, flow_table, reads >>
engineVars == << fs, _flowtable, message_queue, tasks, consumer,
                 pushed, popped, dispatched, sent, failure >>
vars == << sections, order, phase, conferr, flow_table, reads,
           fs, _flowtable, message_queue, tasks, consumer,
           pushed, popped, dispatched, sent, failure >>

\* The engine before RLServer exists.
NoEngine ==
  /\ fs = << >>
  /\ _flowtable = << >>
  /\ message_queue = << >>
  /\ tasks = << >>
  /\ consumer = "idle"
  /\ pushed = << >>
  /\ popped = << >>
  /\ dispatched = << >>
  /\ sent = << >>
  /\ failure = << >>

\* ------------------------------------------- RLConfig as a state machine
InitConfig ==
  /\ sections \in SectionLists(ConfigSections)
  /\ order \in Perms(HashedStrings(sections))
  /\ phase = "new"
  /\ conferr = ""
  /\ flow_table = << >>
  /\ reads = << >>
  /\ NoEngine

\* RLConfig(config=...): the first construction, or another one from the same
\* configuration file.
ConfigConstruct ==
  /\ phase \in {"new", "configured"}
  /\ \E r \in { RLConfig_init(sections, order) } :
       /\ conferr' = r.err
       /\ flow_table' = r.flow_table
       /\ phase' = IF r.err = "" THEN "configured" ELSE "conferr"
  /\ UNCHANGED << sections, order, reads >>
  /\ UNCHANGED engineVars

\* A client reads config.flowtable.
ReadFlowtable ==
  /\ phase = "configured"
  /\ Len(reads) < MaxReads
  /\ \E r \in { flowtable(flow_table, order) } :
       /\ reads' = Append(reads, r.value)
       /\ flow_table' = r.flow_table
  /\ UNCHANGED << sections, order, phase, conferr >>
  /\ UNCHANGED engineVars

NextConfig == ConfigConstruct \/ ReadFlowtable

SpecConfig == InitConfig /\ [][NextConfig]_vars

\* ---------------------------------- valid_hostname through RLConfig(config)
\* Host names: every text of at most MaxNameLen characters over a letter, a
\* digit, the hyphen, the dot and the underscore, and some longer ones.
NameChars == {"a", "9", "-", ".", "_"}
LongNames ==
  { <<"9", "9", "9", ".", "1", ".", "1", ".", "1">>,
    <<"-", "b", "a", "d", ".", "h", "o", "s", "t">>,
    <<"h", "o", "s", "t", "_", "n", "a", "m", "e">>,
    <<"1", ".", "2", ".", "3", ".", "4">>,
    <<"2", "5", "5", ".", "0", ".", "0", ".", "1">>,
    <<"2", "5", "6", ".", "1", ".", "1", ".", "1">>,
    <<"1", ".", "2", ".", "3">>,
    <<"a", ".", "b", "-", "c", ".", "d", "9">>,
    <<"a", ".", "-", "b">> }
HostNames == UNION { [1..n -> NameChars] : n \in 1..MaxNameLen } \cup LongNames

\* A configuration file of one section, src.file = i and dst.host = name.
InitHost ==
  /\ sections \in { << Section(None, Some(Tok_i), Some(name), None) >> :
                     name \in HostNames }
  /\ order \in Perms(HashedStrings(sections))
  /\ phase = "new"
  /\ conferr = ""
  /\ flow_table = << >>
  /\ reads = << >>
  /\ NoEngine

SpecHost == InitHost /\ [][NextConfig]_vars

\* ------------------------------- Packet through Syslog.send_packet(packet)
\* The parts a client builds packets from: PRI(facility, severity) with the
\* constants of the standard syslog module, a given or absent timestamp, and
\* contents that are empty, short, longer than MAX_LEN, and of the length
\* that makes the packet of PRI <14> exactly MAX_LEN characters long.
PacketPris == { [facility |-> 8, severity |-> 6], [facility |-> 0, severity |-> 0] }
PacketTimestamps ==
  { None,
    Some(<<"J", "u", "n", " ", " ", "1", " ", "1", "8", ":", "3", "4", ":", "0", "3">>) }
PacketContents ==
  { << >>, <<"m">>, [i \in 1..(MAX_LEN + 1) |-> "a"], [i \in 1..(MAX_LEN - 23) |-> "-"] }

\* A client that has made logger = Syslog(); logger.add_host('b:514').
InitPacket ==
  /\ sections = << >>
  /\ order = << >>
  /\ phase = "syslog"
  /\ conferr = ""
  /\ flow_table = << >>
  /\ reads = << >>
  /\ NoEngine

\* logger.send_packet(Packet(PRI(...), HEADER(...), MSG(content=...)))
SyslogSendPacket ==
  /\ phase = "syslog"
  /\ Len(sent) < MaxPackets
  /\ \E pri \in PacketPris, timestamp \in PacketTimestamps, content \in PacketContents :
       \E packet \in { Packet(pri, HEADER(timestamp, None), MSG(None, content, None)) } :
         \E calls \in { send_packet(add_host(Syslog, <<"b", ":", "5", "1", "4">>),
                                     packet, order) } :
           sent' = sent \o [i \in 1..Len(calls) |->
                              [n |-> Len(sent) + 1, source |-> << >>,
                               payload |-> packet,
                               hostname |-> calls[i].hostname,
                               addr |-> calls[i].addr,
                               data |-> calls[i].data]]
  /\ UNCHANGED << sections, order, phase, conferr, flow_table, reads, fs,
                  _flowtable, message_queue, tasks, consumer, pushed, popped,
                  dispatched, failure >>

NextPacket == SyslogSendPacket

SpecPacket == InitPacket /\ [][NextPacket]_vars

\* ---------------------------------- MSG through Syslog.send_packet(packet)
\* The arguments a client gives MSG: the tag absent, short, or longer than
\* MAX_TAG_LEN; contents that are empty or start with a letter, a digit, a
\* space, a hyphen or a colon; the pid absent or given.
MsgTags == { None, Some(<<"t", "g">>), Some([i \in 1..(MAX_TAG_LEN + 1) |-> "t"]) }
MsgContents ==
  { << >>, <<"m">>, <<"9", "x">>, <<" ", "m">>, <<"-">>, <<":", " ", "m">> }
MsgPids == { None, Some(<<"4", "2">>) }

\* logger.send_packet(Packet(PRI(LOG_USER, LOG_INFO), HEADER(),
\*                           MSG(tag, content, pid)))
SyslogSendMsg ==
  /\ phase = "syslog"
  /\ Len(sent) < MaxPackets
  /\ \E tag \in MsgTags, content \in MsgContents, pid \in MsgPids :
       \E packet \in { Packet([facility |-> 8, severity |-> 6], HEADER(None, None),
                               MSG(tag, content, pid)) } :
         \E calls \in { send_packet(add_host(Syslog, <<"b", ":", "5", "1", "4">>),
                                     packet, order) } :
           sent' = sent \o [i \in 1..Len(calls) |->
                              [n |-> Len(sent) + 1, source |-> << >>,
                               payload |-> [tag |-> tag, content |-> content,
                                            pid |-> pid],
                               hostname |-> calls[i].hostname,
                               addr |-> calls[i].addr,
                               data |-> calls[i].data]]
  /\ UNCHANGED << sections, order, phase, conferr, flow_table, reads, fs,
                  _flowtable, message_queue, tasks, consumer, pushed, popped,
                  dispatched, failure >>

NextMsg == SyslogSendMsg

SpecMsg == InitPacket /\ [][NextMsg]_vars

\* ------------------------------------------ Syslog.log(facility, level, text)
\* class Facility: KERN..FTP = range(12), LOCAL0..LOCAL7 = range(16, 24);
\* class Level: EMERG..DEBUG = range(8).
Facility == (0..11) \cup (16..23)
Level == 0..7
\* PRI takes any numbers: the facilities a caller passes are those of the
\* class and the unnamed ones between them.
LogFacilities == Facility \cup (12..15)

\* Syslog.log with pid left False
log(logger, facility, level, text, ord) ==
  send_packet(logger,
              Packet([facility |-> facility, severity |-> level],
                     HEADER(None, None), MSG(None, text, None)),
              ord)

\* logger.log(facility, level, "m")
SyslogLog ==
  /\ phase = "syslog"
  /\ Len(sent) < MaxPackets
  /\ \E facility \in LogFacilities, level \in Level :
       \E calls \in { log(add_host(Syslog, <<"b", ":", "5", "1", "4">>),
                           facility, level, <<"m">>, order) } :
         sent' = sent \o [i \in 1..Len(calls) |->
                              [n |-> Len(sent) + 1, source |-> << >>,
                               payload |-> [facility |-> facility,
                                            severity |-> level],
                               hostname |-> calls[i].hostname,
                               addr |-> calls[i].addr,
                               data |-> calls[i].data]]
  /\ UNCHANGED << sections, order, phase, conferr, flow_table, reads, fs,
                  _flowtable, message_queue, tasks, consumer, pushed, popped,
                  dispatched, failure >>

NextLog == SyslogLog

SpecLog == InitPacket /\ [][NextLog]_vars

\* --------------------------------------- the relay engine as a state machine
Path_i == <<"/", "d", "/", "i">>
Path_o == <<"/", "d", "/", "o">>
Paths == {Path_i, Path_o}
\* What the destination file holds before the engine is constructed.
OldContent == <<"x", "\n">>
\* What a source file may hold.
FileContents ==
  { << >>,
    <<"a", "\n", "b", "\n">>,
    <<" ", "a", " ", "\r", "\n", "\n", "b">> }
\* The datagrams a UDP source may receive.
Datagrams == { <<"m">>, <<" ", "m", "\n">> }

\* The source files of a flow table.
SourceFiles(ft) ==
  { Replace(k, FilePrefix, << >>) :
      k \in { x \in UNION { DOMAIN ft[i] : i \in 1..Len(ft) } :
              StartsWith(x, FilePrefix) } }

\* The state after `rlconfig = RLConfig(config=...)` has succeeded.
Init ==
  /\ sections \in SectionLists(EngineSections)
  /\ order \in Perms(HashedStrings(sections))
  /\ \E r \in { RLConfig_init(sections, order) } :
       /\ r.err = ""
       /\ flow_table = r.flow_table
  /\ phase = "configured"
  /\ conferr = ""
  /\ reads = << >>
  /\ fs \in { f \in [Paths -> {None} \cup { Some(c) : c \in FileContents \cup {OldContent} }] :
              /\ f[Path_o] = Some(OldContent)
              /\ IF Path_i \in SourceFiles(flow_table)
                   THEN f[Path_i] # Some(OldContent)
                   ELSE f[Path_i] = None }
  /\ _flowtable = << >>
  /\ message_queue = << >>
  /\ tasks = << >>
  /\ consumer = "idle"
  /\ pushed = << >>
  /\ popped = << >>
  /\ dispatched = << >>
  /\ sent = << >>
  /\ failure = << >>

\* server = RLServer(rlconfig.flowtable)
ServerConstruct ==
  /\ phase = "configured"
  /\ \E r \in { flowtable(flow_table, order) } :
       /\ flow_table' = r.flow_table
       /\ \E s \in { flowtable_setter(r.value, DOMAIN r.value, fs) } :
            /\ _flowtable' = s.flowtable
            /\ fs' = s.fs
            /\ tasks' = [k \in DOMAIN s.flowtable |->
                           [state |-> "idle", opened |-> FALSE, count |-> 0,
                            args |-> << >>]]
  /\ message_queue' = << >>
  /\ phase' = "constructed"
  /\ UNCHANGED << sections, order, conferr, reads, consumer,
                  pushed, popped, dispatched, sent, failure >>

\* server.start(): one thread per source and the consumer thread, all started.
Start ==
  /\ phase = "constructed"
  /\ phase' = "started"
  /\ consumer' = "running"
  /\ tasks' = [source \in DOMAIN _flowtable |->
                 [tasks[source] EXCEPT
                    !.state = "running",
                    !.args = IF ~StartsWith(source, FilePrefix)
                               THEN << Split(source, ":")[1],
                                       IntOf(Split(source, ":")[2]) >>
                               ELSE << source, -1 >>]]
  /\ UNCHANGED << sections, order, conferr, flow_table, reads, fs, _flowtable,
                  message_queue, pushed, popped, dispatched, sent, failure >>

IsSocketTask(k) == ~StartsWith(k, FilePrefix)

\* An exception no frame of the thread's target catches ends that thread;
\* threading prints the traceback and the other threads go on.
thread_raises_all(threads, k) ==
  [j \in DOMAIN threads |-> [threads[j] EXCEPT !.state = "failed"]]
thread_raises(threads, k) == [threads EXCEPT ![k].state = "failed"]

\* _serve_socket: SocketServer.UDPServer((host, port), UDPHandler) binds the
\* socket, or raises socket.error, which ends the thread.  An address another
\* thread of the engine has bound cannot be bound again.
ServeSocketBind(k) ==
  /\ phase = "started"
  /\ IsSocketTask(k)
  /\ tasks[k].state = "running"
  /\ ~tasks[k].opened
  /\ \E ok \in BOOLEAN :
       /\ ok => \A j \in DOMAIN tasks :
                  ~(j # k /\ IsSocketTask(j) /\ tasks[j].opened
                      /\ tasks[j].args = tasks[k].args)
       /\ tasks' = IF ok THEN [tasks EXCEPT ![k].opened = TRUE]
                           ELSE thread_raises(tasks, k)
  /\ UNCHANGED << sections, order, phase, conferr, flow_table, reads, fs,
                  _flowtable, message_queue, consumer, pushed, popped,
                  dispatched, sent, failure >>

\* UDPHandler.handle: one datagram received on the bound socket.
UDPHandler(k) ==
  /\ phase = "started"
  /\ IsSocketTask(k)
  /\ tasks[k].state = "running"
  /\ tasks[k].opened
  /\ tasks[k].count < MaxDatagrams
  /\ \E request \in Datagrams :
       \E item \in { << host_port(tasks[k].args[1], tasks[k].args[2]),
                        handle_data(request) >> } :
         /\ message_queue' = queue_put(message_queue, item)
         /\ pushed' = Append(pushed, [task |-> k, item |-> item])
  /\ tasks' = [tasks EXCEPT ![k].count = @ + 1]
  /\ UNCHANGED << sections, order, phase, conferr, flow_table, reads, fs,
                  _flowtable, consumer, popped, dispatched, sent, failure >>

\* _serve_file: open(filename.replace('file://', ''), 'rb'), or IOError.
ServeFileOpen(k) ==
  /\ phase = "started"
  /\ ~IsSocketTask(k)
  /\ tasks[k].state = "running"
  /\ ~tasks[k].opened
  /\ tasks' = IF IsNone(fs[Replace(tasks[k].args[1], FilePrefix, << >>)])
                THEN thread_raises(tasks, k)
                ELSE [tasks EXCEPT ![k].opened = TRUE]
  /\ UNCHANGED << sections, order, phase, conferr, flow_table, reads, fs,
                  _flowtable, message_queue, consumer, pushed, popped,
                  dispatched, sent, failure >>

\* _serve_file: one iteration of `for line in ...`.
ServeFileLine(k) ==
  /\ phase = "started"
  /\ ~IsSocketTask(k)
  /\ tasks[k].state = "running"
  /\ tasks[k].opened
  /\ \E content \in { fs[Replace(tasks[k].args[1], FilePrefix, << >>)][1] } :
       /\ tasks[k].count < Len(content)
       /\ \E line \in { next_line(content, tasks[k].count) } :
            /\ \E item \in { << tasks[k].args[1], serve_file_data(line) >> } :
                 /\ message_queue' = queue_put(message_queue, item)
                 /\ pushed' = Append(pushed, [task |-> k, item |-> item])
            /\ tasks' = [tasks EXCEPT ![k].count = @ + Len(line)]
  /\ UNCHANGED << sections, order, phase, conferr, flow_table, reads, fs,
                  _flowtable, consumer, popped, dispatched, sent, failure >>

\* _serve_file: the iterator is exhausted and the thread ends.
ServeFileEnd(k) ==
  /\ phase = "started"
  /\ ~IsSocketTask(k)
  /\ tasks[k].state = "running"
  /\ tasks[k].opened
  /\ tasks[k].count = Len(fs[Replace(tasks[k].args[1], FilePrefix, << >>)][1])
  /\ tasks' = [tasks EXCEPT ![k].state = "stopped"]
  /\ UNCHANGED << sections, order, phase, conferr, flow_table, reads, fs,
                  _flowtable, message_queue, consumer, pushed, popped,
                  dispatched, sent, failure >>

\* One iteration of _message_consumer, from the entry `item` it got.  The
\* lookup raises KeyError for a source that is no key; sendto raises
\* socket.error for the first host it cannot send to (after `nok` sends).
\* Either ends the thread.
ConsumerSend(n, source, data, calls, nok) ==
  /\ sent' = sent \o [i \in 1..nok |->
                        [n |-> n, source |-> source, payload |-> data,
                         hostname |-> calls[i].hostname,
                         addr |-> calls[i].addr,
                         data |-> calls[i].data]]
  /\ IF nok < Len(calls)
       THEN /\ consumer' = "failed"
            /\ failure' = Append(failure,
                                 [n |-> n, hostname |-> calls[nok + 1].hostname])
            /\ UNCHANGED << fs, _flowtable, dispatched >>
       ELSE /\ \E w \in { write_all(fs, _flowtable[source].ofiles,
                                    data \o <<"\n">>) } :
                 /\ fs' = w.fs
                 /\ _flowtable' = [_flowtable EXCEPT ![source].ofiles = w.ofiles]
            /\ dispatched' = Append(dispatched, << source, data >>)
            /\ UNCHANGED << consumer, failure >>

ConsumerDispatch(n, source, data) ==
  IF source \notin DOMAIN _flowtable
    THEN /\ consumer' = "failed"
         /\ UNCHANGED << fs, _flowtable, dispatched, sent, failure >>
    ELSE \E calls \in { IF host_number_gt_0(_flowtable[source].logger)
                          THEN send_packet(_flowtable[source].logger,
                                           PyStr(data), order)
                          ELSE << >> } :
           \E nok \in 0..Len(calls) : ConsumerSend(n, source, data, calls, nok)

MessageConsumer ==
  /\ phase = "started"
  /\ consumer = "running"
  /\ message_queue # << >>
  /\ \E g \in { queue_get(message_queue) } :
       /\ message_queue' = g.queue
       /\ popped' = Append(popped, g.item)
       /\ ConsumerDispatch(Len(popped) + 1, g.item[1], g.item[2])
  /\ UNCHANGED << sections, order, phase, conferr, flow_table, reads,
                  tasks, pushed >>

Next ==
  \/ ServerConstruct
  \/ Start
  \/ \E k \in DOMAIN tasks : ServeSocketBind(k)
  \/ \E k \in DOMAIN tasks : UDPHandler(k)
  \/ \E k \in DOMAIN tasks : ServeFileOpen(k)
  \/ \E k \in DOMAIN tasks : ServeFileLine(k)
  \/ \E k \in DOMAIN tasks : ServeFileEnd(k)
  \/ MessageConsumer

Spec == Init /\ [][Next]_vars

\* The engine with a dispatch thread the scheduler does not starve: while
\* the thread is alive and message_queue.get() can return, an iteration of
\* _message_consumer is eventually taken.  MessageConsumer is the only action
\* that changes `popped` and it can be taken exactly when ConsumerReady holds,
\* so this is weak fairness of MessageConsumer, stated on its first statement.
ConsumerReady == phase = "started" /\ consumer = "running" /\ message_queue # << >>
ConsumerGet == ConsumerReady /\ popped' = Append(popped, queue_get(message_queue).item)
FairSpec == Init /\ [][Next]_vars /\ WF_popped(ConsumerGet)

\* ================================================================ properties
\* ---------------------------------------------------- helper definitions
\* The lines of a file, each with its terminator.
FileLines(content) ==
  LET parts == Split(content, "\n")
      n == Len(parts)
  IN [j \in 1..(n - 1) |-> parts[j] \o <<"\n">>]
       \o (IF parts[n] = << >> THEN << >> ELSE << parts[n] >>)

\* A line without its trailing line terminator ("\n" or "\r\n").
ChopTerminator(line) ==
  LET l == IF line # << >> /\ line[Len(line)] = "\n"
             THEN SubSeq(line, 1, Len(line) - 1) ELSE line
  IN IF l # << >> /\ l[Len(l)] = "\r" THEN SubSeq(l, 1, Len(l) - 1) ELSE l

IsPrefix(s, t) == Len(s) <= Len(t) /\ s = SubSeq(t, 1, Len(s))

\* The subsequence of the elements of s that satisfy Test.
RECURSIVE SelectIdx(_, _)
SelectIdx(s, keep) ==
  IF s = << >> THEN << >>
  ELSE (IF Len(s) \in keep THEN SelectIdx(SubSeq(s, 1, Len(s) - 1), keep)
                                  \o << s[Len(s)] >>
        ELSE SelectIdx(SubSeq(s, 1, Len(s) - 1), keep))

\* The payloads task k has pushed, in push order.
PushedBy(k) ==
  LET sel == SelectIdx(pushed, { i \in 1..Len(pushed) : pushed[i].task = k })
  IN [i \in 1..Len(sel) |-> sel[i].item[2]]
\* The payloads of the datagrams of source key `source` sent to `hostname`.
SentTo(source, hostname) ==
  LET sel == SelectIdx(sent, { i \in 1..Len(sent) :
                               sent[i].source = source /\ sent[i].hostname = hostname })
  IN [i \in 1..Len(sel) |-> sel[i].payload]
\* The payloads of the entries of source key `source` dispatched completely.
DispatchedOf(source) ==
  LET sel == SelectIdx(dispatched, { i \in 1..Len(dispatched) :
                                     dispatched[i][1] = source })
  IN [i \in 1..Len(sel) |-> sel[i][2]]

\* The paths of the file objects of a source key, and all open file objects.
FileSinkPaths(k) ==
  { _flowtable[k].ofiles[i].path : i \in 1..Len(_flowtable[k].ofiles) }
FileObjects ==
  UNION { { << k, i >> : i \in 1..Len(_flowtable[k].ofiles) } :
          k \in DOMAIN _flowtable }
FileObjectsOn(path) ==
  { o \in FileObjects : _flowtable[o[1]].ofiles[o[2]].path = path }
\* The file a file-source task reads, as its content ("" when it is missing).
SourceContent(k) ==
  LET path == Replace(k, FilePrefix, << >>)
  IN IF IsNone(fs[path]) THEN << >> ELSE fs[path][1]
FileTasks == { k \in DOMAIN tasks : ~IsSocketTask(k) }

C3_SourceFifo ==
  \A k \in DOMAIN tasks :
    \A i \in 1..Len(pushed) :
      pushed[i].task = k =>
        /\ \A h \in (IF pushed[i].item[1] \in DOMAIN _flowtable
                       THEN _flowtable[pushed[i].item[1]].logger.hostnames ELSE {}) :
             IsPrefix(SentTo(pushed[i].item[1], h), PushedBy(k))
        /\ IsPrefix(DispatchedOf(pushed[i].item[1]), PushedBy(k))

\* A task's second message reaches a host after another task's message was
\* pushed in between.
C3_Witness ==
  \E i, j, l \in 1..Len(pushed) :
    /\ i < j /\ j < l
    /\ pushed[i].task = pushed[l].task
    /\ pushed[j].task # pushed[i].task
    /\ pushed[i].item[2] # pushed[l].item[2]
    /\ \E h \in _flowtable[pushed[i].item[1]].logger.hostnames :
         Len(SentTo(pushed[i].item[1], h)) >= 2

\* ------------------------------------------------------------------- C4
\* C4 as stated: the source key of every queued entry is a key of the
\* engine's sink map.
C4_QueuedKeysAreSinkKeys ==
  \A i \in 1..Len(message_queue) : message_queue[i][1] \in DOMAIN _flowtable

\* ------------------------------------------------------------------- C5
\* C5 as stated: every datagram sent is one serialized Packet built from the
\* ingested payload, of at most MAX_LEN bytes.
C5_DatagramIsPacket ==
  \A i \in 1..Len(sent) :
    /\ Len(sent[i].data) <= MAX_LEN
    /\ \E facility \in 0..23, severity \in 0..7 :
         sent[i].data =
           Packet_str(Packet([facility |-> facility, severity |-> severity],
                             HEADER(None, None),
                             MSG(None, sent[i].payload, None)))

\* ------------------------------------------------------------------- C6
\* How often entry n was handed to the socket for hostname.
SendsOf(n, hostname) ==
  Cardinality({ i \in 1..Len(sent) : sent[i].n = n /\ sent[i].hostname = hostname })
  + Cardinality({ i \in 1..Len(failure) :
                  failure[i].n = n /\ failure[i].hostname = hostname })
\* C6 as stated: for each message the dispatch task has popped, each distinct
\* destination host:port of its source has been handed exactly one datagram
\* (a send that raised counts as handed), and a source without network
\* destination none.
C6_OneDatagramPerHost ==
  \A n \in 1..Len(popped) :
    popped[n][1] \in DOMAIN _flowtable =>
      /\ \A h \in _flowtable[popped[n][1]].logger.hostnames : SendsOf(n, h) = 1
      /\ _flowtable[popped[n][1]].logger.hostnames = {}
           => \A i \in 1..Len(sent) : sent[i].n # n

\* ------------------------------------------------------------------- C7
\* C7 as stated: when the send of a message to one host fails, the message is
\* still sent to every other host of the source and written to its files.
\* (The dispatch task handles one entry at a time and every earlier entry was
\* dispatched completely, so entry n is written once n entries are.)
C7_BestEffortFanOut ==
  \A i \in 1..Len(failure) :
    /\ \A h \in _flowtable[popped[failure[i].n][1]].logger.hostnames
                  \ {failure[i].hostname} :
         \E j \in 1..Len(sent) : sent[j].n = failure[i].n /\ sent[j].hostname = h
    /\ _flowtable[popped[failure[i].n][1]].ofiles # << >>
         => Len(dispatched) >= failure[i].n

\* ------------------------------------------------------------------- C8
\* What the dispatch task has relayed to path, in dispatch order.
RelayedTo(path) ==
  LET sel == SelectIdx(dispatched,
                       { i \in 1..Len(dispatched) :
                         path \in FileSinkPaths(dispatched[i][1]) })
  IN Concat([i \in 1..Len(sel) |-> sel[i][2] \o <<"\n">>])
\* C8 as stated: a sink file keeps the content it held before the engine was
\* constructed, and every relayed message is added after it as payload and
\* newline.
C8_AppendMode ==
  \A o \in FileObjects :
    fs[_flowtable[o[1]].ofiles[o[2]].path]
      = Some(OldContent \o RelayedTo(_flowtable[o[1]].ofiles[o[2]].path))

\* ------------------------------------------------------------------- C9
\* The rules (by index) that declare source key k, and their destination
\* lists concatenated in rule order.
RulesOf(k) == { i \in 1..Len(flow_table) : k \in DOMAIN flow_table[i] }
RuleDests(k) ==
  Concat([i \in 1..Len(flow_table) |->
            IF k \in DOMAIN flow_table[i] THEN flow_table[i][k] ELSE << >>])
NoDuplicates(s) == \A i, j \in 1..Len(s) : s[i] = s[j] => i = j

C10_ReadsAgree ==
  \A i, j \in 1..Len(reads) : reads[i] = reads[j]

\* The property has been read twice on a table that merges two rules into a
\* list of several destinations.
C10_Witness ==
  /\ Len(reads) >= 2
  /\ \E k \in DOMAIN reads[2] :
       Cardinality(RulesOf(k)) >= 2 /\ Len(reads[2][k]) >= 2

\* ------------------------------------------------------------------ C11
\* What each section of the file evaluates to, and the table of a section
\* that evaluates without error.
SectionValues == [i \in 1..Len(sections) |-> get_section_values(sections[i], order)]
SectionsAccepted == \A i \in 1..Len(sections) : SectionValues[i].err = ""
SectionTable(i) == assemble_flowtable(SectionValues[i].values)
\* The destinations all sections together give source key k.
MergedDests(k) ==
  UNION { Range(SectionTable(i)[k]) :
          i \in { j \in 1..Len(sections) : k \in DOMAIN SectionTable(j) } }
SelfReference ==
  \E i \in 1..Len(sections) : \E k \in DOMAIN SectionTable(i) : k \in MergedDests(k)

\* C11: once construction was attempted on sections that are each accepted,
\* it failed with the loop error whenever some source key is among its own
\* merged destinations, whichever rule contributes it; and no constructed
\* table, per rule or merged, maps a key to a list holding that key.
C11_LoopRejected ==
  /\ (phase # "new" /\ SectionsAccepted /\ SelfReference)
       => (phase = "conferr" /\ conferr = "Loops detected")
  /\ phase = "configured"
       => \A i, j \in 1..Len(flow_table) :
            \A k \in DOMAIN flow_table[i] \cap DOMAIN flow_table[j] :
              k \notin Range(flow_table[j][k])
  /\ \A n \in 1..Len(reads) : \A k \in DOMAIN reads[n] : k \notin Range(reads[n][k])

\* Construction failed with the loop error on two rules for one source, the
\* first without self-reference: the second rule contributes it.
C11_Witness ==
  /\ phase = "conferr"
  /\ conferr = "Loops detected"
  /\ Len(sections) = 2
  /\ \E k \in DOMAIN SectionTable(1) :
       /\ k \notin Range(SectionTable(1)[k])
       /\ k \in DOMAIN SectionTable(2)
       /\ k \in Range(SectionTable(2)[k])

\* ------------------------------------------------------------------ C12
\* C12: in every constructed RLConfig each source key of each rule's table,
\* and of every merged table read from it, maps to a non-empty list.
C12_DestinationsNonEmpty ==
  /\ phase = "configured"
       => \A i \in 1..Len(flow_table) :
            \A k \in DOMAIN flow_table[i] : flow_table[i][k] # << >>
  /\ \A n \in 1..Len(reads) :
       /\ DOMAIN reads[n] # {}
       /\ \A k \in DOMAIN reads[n] : reads[n][k] # << >>

\* A merged table of two accepted rules with different sources has been read.
C12_Witness ==
  /\ phase = "configured"
  /\ \E n \in 1..Len(reads) : Cardinality(DOMAIN reads[n]) >= 2

\* ------------------------------------------------------------------ C13
\* C13 as stated: once construction was attempted on a file with a section
\* that sets both src.host and src.file, it failed with a configuration
\* error and left no table.
C13_ConflictingSourceRejected ==
  (/\ phase # "new"
   /\ \E i \in 1..Len(sections) :
        ~IsNone(sections[i].src_host) /\ ~IsNone(sections[i].src_file))
    => (phase = "conferr" /\ flow_table = << >>)

\* ------------------------------------------------------------------ C14
\* The two grammars of host names as documented: four dot-separated decimal octets
\* of value 0..255, and dot-separated labels of letters, digits and hyphens
\* that neither start nor end with a hyphen.
IsIPv4Literal(s) ==
  LET parts == Split(s, ".")
  IN /\ Len(parts) = 4
     /\ \A i \in 1..4 :
          /\ Len(parts[i]) \in 1..3
          /\ IsDigits(parts[i])
          /\ IntOf(parts[i]) <= 255
IsLabelSequence(s) ==
  LET parts == Split(s, ".")
  IN \A i \in 1..Len(parts) :
       /\ parts[i] # << >>
       /\ \A j \in 1..Len(parts[i]) : IsAlnum(parts[i][j]) \/ parts[i][j] = "-"
       /\ parts[i][1] # "-"
       /\ parts[i][Len(parts[i])] # "-"
\* The host name the one-section file of InitHost gives as dst.host.
DstName == sections[1].dst_host[1]
RejectedNames ==
  { <<"9", "9", "9", ".", "1", ".", "1", ".", "1">>,
    <<"-", "b", "a", "d", ".", "h", "o", "s", "t">>,
    <<"h", "o", "s", "t", "_", "n", "a", "m", "e">> }

\* C14 as stated: construction accepts the destination name exactly when it
\* is an IPv4 literal or a sequence of hostname labels, otherwise it fails
\* with the invalid-hostname error; and '999.1.1.1', '-bad.host' and
\* 'host_name' are rejected.
C14_HostnameValidation ==
  phase # "new" =>
    /\ (phase = "configured") <=> (IsIPv4Literal(DstName) \/ IsLabelSequence(DstName))
    /\ phase = "conferr" => conferr = "Invalid hostname"
    /\ DstName \in RejectedNames => phase = "conferr"

\* ------------------------------------------------------------------ C15
\* C15: the step in which a network source's task fails to bind its socket
\* changes nothing but that task: every other task, the dispatch task, the
\* queue and the sinks are as before, and a step the other tasks or the
\* dispatch task could take before it they can still take after it.
C15_BindFailureIsolated ==
  [][\A k \in DOMAIN tasks \cap DOMAIN tasks' :
       (IsSocketTask(k) /\ tasks[k].state = "running" /\ tasks'[k].state = "failed")
         => /\ \A j \in DOMAIN tasks \ {k} : tasks'[j] = tasks[j]
            /\ consumer' = consumer
            /\ message_queue' = message_queue
            /\ _flowtable' = _flowtable
            /\ fs' = fs]_vars

\* A network source's task has failed to bind, and a message of another
\* source, pushed by its own task, has been dispatched by a dispatch task
\* that is still running.
C15_Witness ==
  \E k \in DOMAIN tasks :
    /\ IsSocketTask(k)
    /\ tasks[k].state = "failed"
    /\ consumer = "running"
    /\ \E j \in DOMAIN tasks \ {k} :
         /\ tasks[j].state \in {"running", "stopped"}
         /\ DispatchedOf(j) # << >>

\* ------------------------------------------------------------------ C16
\* The steps a task's state may take.
TaskSteps ==
  { <<"idle", "running">>, <<"running", "stopped">>, <<"running", "failed">> }

\* C16: in every state, a file source's task has pushed one message for
\* each of the first lines of its file, in line order, never more than the
\* file has lines, and exactly one per line once it has stopped; a task that
\* has stopped or failed pushes nothing more; and a task's state changes only
\* from idle to running and from running to stopped or failed.
C16_FileTaskLifecycle ==
  /\ [](\A k \in FileTasks :
          /\ Len(PushedBy(k)) <= Len(FileLines(SourceContent(k)))
          /\ \A j \in 1..Len(PushedBy(k)) :
               PushedBy(k)[j] =
                 Strip(FileLines(SourceContent(k))[j], {" ", "\r", "\n"})
          /\ tasks[k].state = "stopped"
               => Len(PushedBy(k)) = Len(FileLines(SourceContent(k))))
  /\ [][\A k \in DOMAIN tasks \cap DOMAIN tasks' :
          /\ tasks'[k].state = tasks[k].state
             \/ << tasks[k].state, tasks'[k].state >> \in TaskSteps
          /\ tasks[k].state \in {"stopped", "failed"}
               => \A i \in (Len(pushed) + 1)..Len(pushed') : pushed'[i].task # k]_vars

\* A task has read a file of three lines, one of them empty, to its end and
\* stopped, and the dispatch task has taken a step since.
C16_Witness ==
  \E k \in FileTasks :
    /\ tasks[k].state = "stopped"
    /\ Len(FileLines(SourceContent(k))) = 3
    /\ Len(PushedBy(k)) = 3
    /\ popped # << >>

\* ------------------------------------------------------------------ C17
\* The destination host tokens of section i, without surrounding blanks.
DstTokens(i) ==
  IF IsNone(sections[i].dst_host) THEN {}
  ELSE { Strip(t, Whitespace) : t \in Range(Split(sections[i].dst_host[1], ",")) }
\* The table entry and the UDP address expected for a token.
EntryOf(t) == IF HasChar(t, ":") THEN t ELSE t \o <<":", "5", "1", "4">>
AddressOf(t) ==
  << Split(t, ":")[1], IF HasChar(t, ":") THEN IntOf(Split(t, ":")[2]) ELSE 514 >>

\* C17: once the engine is constructed, each destination host token of each
\* rule is a destination of the rule's sources under the entry name:514 when
\* it has no port and under its own text when it has one, and every datagram
\* sent for that entry goes to the token's host and to port 514, or to the
\* port the token carries.
C17_DefaultPort ==
  phase \in {"constructed", "started"} =>
    \A i \in 1..Len(sections) :
      \A t \in DstTokens(i) :
        \A k \in DOMAIN flow_table[i] :
          /\ EntryOf(t) \in _flowtable[k].logger.hostnames
          /\ \A j \in 1..Len(sent) :
               (sent[j].source = k /\ sent[j].hostname = EntryOf(t))
                 => sent[j].addr = AddressOf(t)

\* A datagram has been sent for a token without port and one for a token
\* with a port other than 514.
C17_Witness ==
  /\ \E i \in 1..Len(sections) : \E t \in DstTokens(i) : \E j \in 1..Len(sent) :
       /\ ~HasChar(t, ":")
       /\ sent[j].source \in DOMAIN flow_table[i]
       /\ sent[j].hostname = EntryOf(t)
       /\ sent[j].addr[2] = 514
  /\ \E i \in 1..Len(sections) : \E t \in DstTokens(i) : \E j \in 1..Len(sent) :
       /\ HasChar(t, ":")
       /\ sent[j].source \in DOMAIN flow_table[i]
       /\ sent[j].hostname = t
       /\ sent[j].addr[2] = 6

\* ------------------------------------------------------------------ C18
\* C18 as stated: the datagram of a packet is PRI, a space, HEADER, a space
\* and MSG, cut to MAX_LEN characters.
C18_PriSpaceHeader ==
  \A i \in 1..Len(sent) :
    sent[i].data =
      Take(PRI_str(sent[i].payload.pri) \o <<" ">>
             \o HEADER_str(sent[i].payload.header) \o <<" ">>
             \o MSG_str(sent[i].payload.msg), MAX_LEN)

\* C18 amended: the datagram of a packet is a prefix of PRI directly followed
\* by HEADER, a space and MSG; it is that whole text when the text has at
\* most 1024 characters and its first 1024 characters otherwise.
C18_PriHeaderAdjacent ==
  \A i \in 1..Len(sent) :
    LET full == PRI_str(sent[i].payload.pri) \o HEADER_str(sent[i].payload.header)
                  \o <<" ">> \o MSG_str(sent[i].payload.msg)
    IN /\ Len(sent[i].data) <= 1024
       /\ IsPrefix(sent[i].data, full)
       /\ Len(sent[i].data) = IF Len(full) <= 1024 THEN Len(full) ELSE 1024

\* A packet of exactly 1024 characters has been sent whole, and one with a
\* longer MSG has been sent cut.
C18_Witness ==
  /\ \E i \in 1..Len(sent) :
       /\ Len(sent[i].data) = 1024
       /\ Len(MSG_str(sent[i].payload.msg)) = 1002
  /\ \E i \in 1..Len(sent) :
       /\ Len(sent[i].data) = 1024
       /\ Len(MSG_str(sent[i].payload.msg)) > 1024

\* ------------------------------------------------------------------ C19
\* The absolute paths the rules that declare source key k give as dst.file.
FileDestsOf(k) ==
  { Drop(get_abs_filepath(sections[i].dst_file[1]).result, 7) :
      i \in { j \in 1..Len(sections) :
              k \in DOMAIN flow_table[j] /\ ~IsNone(sections[j].dst_file) } }
\* The bytes of the lines of the messages of source key k dispatched so far.
LinesOf(k) == Concat([j \in 1..Len(DispatchedOf(k)) |-> DispatchedOf(k)[j] \o <<"\n">>])

\* C19: each source of the engine holds exactly one file object for each
\* distinct path its rules give, however many rules give it, and through
\* each of them exactly one line has been written for each message of the
\* source dispatched so far: the object stands just behind those lines, and
\* they are the content of the file when no other source writes it.
C19_OneHandlePerPath ==
  \A k \in DOMAIN _flowtable :
    /\ FileSinkPaths(k) = FileDestsOf(k)
    /\ \A i, j \in 1..Len(_flowtable[k].ofiles) :
         _flowtable[k].ofiles[i].path = _flowtable[k].ofiles[j].path => i = j
    /\ \A i \in 1..Len(_flowtable[k].ofiles) :
         /\ _flowtable[k].ofiles[i].pos = Len(LinesOf(k))
         /\ Cardinality(FileObjectsOn(_flowtable[k].ofiles[i].path)) = 1
              => fs[_flowtable[k].ofiles[i].path] = Some(LinesOf(k))

\* Two rules give one source the same file, and two messages of the source
\* have been dispatched.
C19_Witness ==
  \E k \in DOMAIN _flowtable :
    /\ Cardinality({ j \in 1..Len(sections) :
                     k \in DOMAIN flow_table[j] /\ ~IsNone(sections[j].dst_file) }) >= 2
    /\ Cardinality(FileDestsOf(k)) = 1
    /\ Len(DispatchedOf(k)) >= 2

\* ------------------------------------------------------------------ C20
\* The most entries the tasks of one run can push: every task a file of three
\* lines or MaxDatagrams datagrams.
PushLimit == MaxRules * (3 + MaxDatagrams)

\* C20 as stated: under a fairly scheduled dispatch task, the n-th entry
\* pushed is eventually popped and dispatched to the end, its lines written
\* to all files of its source, whatever happened to the entries before it.
C20_EveryEntryServed ==
  \A n \in 1..PushLimit :
    (Len(pushed) >= n) ~> (Len(popped) >= n /\ Len(dispatched) >= n)

\* ------------------------------------------------------------------ C21
\* The MSG part of a datagram of SpecMsg: what follows "<14>", the current
\* timestamp, a space, the local host name and a space.
MsgPartOf(data) == Drop(data, 4 + Len(CurrentTimestamp) + 1 + Len(LocalHostname) + 1)
\* The tag as it is sent, and the content with its separator.
SentTag(tag) == Take(IF IsNone(tag) THEN Argv0 ELSE tag[1], 32)
Separated(content) ==
  IF content # << >> /\ (content[1] \in Letters \/ content[1] \in Digits)
    THEN <<":", " ">> \o content ELSE content

\* C21: the MSG part of every datagram is the tag, then '[pid]' when a pid is
\* given, then the content, with ': ' in front of the content exactly when
\* the content is non-empty and starts with a letter or a digit; and for a
\* non-empty content the character after the tag is no letter and no digit.
C21_TagContentSeparator ==
  \A i \in 1..Len(sent) :
    LET a == sent[i].payload
        msg == MsgPartOf(sent[i].data)
        tag == SentTag(a.tag)
    IN /\ msg = tag \o (IF IsNone(a.pid) THEN << >>
                        ELSE <<"[">> \o a.pid[1] \o <<"]">>)
                    \o Separated(a.content)
       /\ a.content # << >>
            => /\ Len(msg) > Len(tag)
               /\ msg[Len(tag) + 1] \notin Letters \cup Digits

\* A content starting with a letter has been sent without pid, and one with
\* a pid.
C21_Witness ==
  /\ \E i \in 1..Len(sent) :
       /\ IsNone(sent[i].payload.pid)
       /\ sent[i].payload.content = <<"m">>
       /\ MsgPartOf(sent[i].data) = SentTag(sent[i].payload.tag) \o <<":", " ", "m">>
  /\ \E i \in 1..Len(sent) :
       /\ ~IsNone(sent[i].payload.pid)
       /\ sent[i].payload.content = <<"9", "x">>

\* ------------------------------------------------------------------ C22
\* The PRI part of a datagram: its text up to the first ">".
PriPartOf(data) ==
  Take(data, CHOOSE k \in 1..Len(data) :
               data[k] = ">" /\ \A j \in 1..(k - 1) : data[j] # ">")

\* C22: every datagram logged with a facility in 0..23 and a severity in
\* 0..7 starts with '<N>' where N = facility*8 + severity, and two datagrams
\* logged with different (facility, severity) pairs start with different PRI
\* parts.
C22_PriIsRfc3164 ==
  /\ \A i \in 1..Len(sent) :
       PriPartOf(sent[i].data)
         = <<"<">> \o FormatD(sent[i].payload.facility * 8
                               + sent[i].payload.severity) \o <<">">>
  /\ \A i, j \in 1..Len(sent) :
       sent[i].payload # sent[j].payload
         => PriPartOf(sent[i].data) # PriPartOf(sent[j].data)
====
